---- MODULE Spec2Model ----
(***************************************************************************)
(* State-machine model of spinup/algos/tf1/ddpg/ddpg.py:                   *)
(*   - class ReplayBuffer (circular experience store),                     *)
(*   - the target networks (target_init, target_update),                   *)
(*   - the main interaction loop of ddpg().                                *)
(* Vectors (observations, actions, network weights) are abstracted to     *)
(* scalars; float32 values are small integers or exact fractions.          *)
(***************************************************************************)
EXTENDS Integers, Sequences, FiniteSets, TLC

VARIABLES
    \* the replay buffer and its callers
    replay_buffer,  \* the ReplayBuffer object: six arrays, ptr, size, max_size
    stored,         \* history: the arguments of every store call so far, in order
    call,           \* the ReplayBuffer method called last: "none", "store", "sample_batch"
    outcome,        \* how that call ended: "ok" or the exception raised
    batch_size,     \* the batch_size argument of sample_batch (0 before any call)
    idxs,           \* the indices drawn by the last sample_batch (<<>> if none)
    batch,          \* the dict returned by the last sample_batch (NoBatch if none)
    \* the networks
    weight_space,   \* the values an initializer or an optimizer step can give a weight
    pi_space,       \* the values sess.run(pi) can return
    noise_space,    \* the values np.random.randn can return
    polyak,         \* the interpolation factor, a fraction
    v_main,         \* get_vars('main'): the weights of main/pi and main/q
    v_targ,         \* get_vars('target'): the weights of target/pi and target/q
    pending,        \* the ops of the running sess.run call that have not run yet
    n_q, n_pi, n_targ,  \* how often train_q_op, train_pi_op, target_update have run
    n_batch,        \* how many batches the update block has drawn
    \* ddpg(): hyperparameters and the locals of the main loop
    hp,             \* steps_per_epoch, epochs, start_steps, update_after, ...
    pc,             \* where ddpg() is: "idle", "setup", "step", "update", "epoch",
                    \* "test", "test_step", "done", "crashed"
    t, o, ep_ret, ep_len,
    env_playhead,   \* env.playhead: advances with every reset and step of env
    upd_i,          \* the index of the running iteration of the update loop
    last_step,      \* what the last iteration of the main loop did (history)
    n_random, n_policy, \* steps that took a random action / a policy action
    logger,         \* the values stored in the EpochLogger since the last dump
    n_saves,        \* calls of logger.save_state
    n_tests,        \* calls of test_agent
    last_reset,     \* the observation the last env.reset() returned
    \* test_agent(): its locals
    j, test_o, test_d, test_ep_ret, test_ep_len,
    test_a,         \* the action of the last step of the test episode
    test_pi         \* the output of the policy that action was made from (history)

bufVars == <<replay_buffer, stored, call, outcome, batch_size, idxs, batch>>

netVars == <<weight_space, pi_space, noise_space, polyak, v_main, v_targ, pending,
             n_q, n_pi, n_targ, n_batch>>

loopVars == <<hp, pc, t, o, ep_ret, ep_len, env_playhead, upd_i, last_step,
              n_random, n_policy, logger, n_saves, n_tests, last_reset>>

testVars == <<j, test_o, test_d, test_ep_ret, test_ep_len, test_a, test_pi>>

vars == <<bufVars, netVars, loopVars, testVars>>

----------------------------------------------------------------------------
(* Bounds of the model *)

MaxCapacity == 3    \* ReplayBuffer capacities 1..MaxCapacity
MaxStores == 5      \* store calls per run of the buffer harness
MaxBatch == 2       \* batch_size in 1..MaxBatch
MaxStepsPerEpoch == 2   \* steps_per_epoch in 1..MaxStepsPerEpoch
MaxEpochs == 2          \* epochs in 1..MaxEpochs
MaxStartSteps == 2      \* start_steps in 0..MaxStartSteps
MaxEpLen == 2           \* max_ep_len in 1..MaxEpLen
MaxUpdateEvery == 2     \* update_every in 1..MaxUpdateEvery (runs with varying weights)
MaxWeight == 1          \* weights 0..MaxWeight
PolyakDen == 2          \* polyak in {0, 1/PolyakDen, ..., 1}
MaxUpdateAfter == 2     \* update_after in 0..MaxUpdateAfter
MaxTestEpisodes == 2    \* num_test_episodes in 0..MaxTestEpisodes
MaxSaveFreq == 2        \* save_freq in 1..MaxSaveFreq
MaxActNoise == 2        \* act_noise in 0..MaxActNoise

Min(a, b) == IF a <= b THEN a ELSE b

----------------------------------------------------------------------------
(* class ReplayBuffer *)

\* np.zeros: the value of a slot nothing was stored in
Zero == 0

\* storing a Python bool into a float32 array: True -> 1.0, False -> 0.0
float32_of_bool(d) == IF d THEN 1 ELSE 0

\* ReplayBuffer.__init__(obs_dim, act_dim, size)
ReplayBuffer(size) ==
    [raw_outs_buf |-> [i \in 0..(size - 1) |-> Zero],
     obs1_buf     |-> [i \in 0..(size - 1) |-> Zero],
     obs2_buf     |-> [i \in 0..(size - 1) |-> Zero],
     acts_buf     |-> [i \in 0..(size - 1) |-> Zero],
     rews_buf     |-> [i \in 0..(size - 1) |-> Zero],
     done_buf     |-> [i \in 0..(size - 1) |-> Zero],
     ptr |-> 0, size |-> 0, max_size |-> size]

\* mutants of store: plausible slips in the cursor / size arithmetic
store_NoWrap(self, raw, obs, act, rew, next_obs, done) ==
    [self EXCEPT !.raw_outs_buf[self.ptr] = raw,
                 !.obs1_buf[self.ptr] = obs,
                 !.obs2_buf[self.ptr] = next_obs,
                 !.acts_buf[self.ptr] = act,
                 !.rews_buf[self.ptr] = rew,
                 !.done_buf[self.ptr] = float32_of_bool(done),
                 !.ptr = self.ptr + 1,
                 !.size = Min(self.size + 1, self.max_size)]

store_NoCap(self, raw, obs, act, rew, next_obs, done) ==
    [self EXCEPT !.raw_outs_buf[self.ptr] = raw,
                 !.obs1_buf[self.ptr] = obs,
                 !.obs2_buf[self.ptr] = next_obs,
                 !.acts_buf[self.ptr] = act,
                 !.rews_buf[self.ptr] = rew,
                 !.done_buf[self.ptr] = float32_of_bool(done),
                 !.ptr = (self.ptr + 1) % self.max_size,
                 !.size = self.size + 1]

\* overwrites the newest slot instead of the oldest once the buffer is full
store_Newest(self, raw, obs, act, rew, next_obs, done) ==
    LET at == IF self.size = self.max_size
              THEN (self.ptr + self.max_size - 1) % self.max_size
              ELSE self.ptr
    IN  [self EXCEPT !.raw_outs_buf[at] = raw,
                     !.obs1_buf[at] = obs,
                     !.obs2_buf[at] = next_obs,
                     !.acts_buf[at] = act,
                     !.rews_buf[at] = rew,
                     !.done_buf[at] = float32_of_bool(done),
                     !.ptr = (self.ptr + 1) % self.max_size,
                     !.size = Min(self.size + 1, self.max_size)]

\* mutant: the transition is written and the cursor moves, size stays as it is
store_NoGrow(self, raw, obs, act, rew, next_obs, done) ==
    [self EXCEPT !.raw_outs_buf[self.ptr] = raw,
                 !.obs1_buf[self.ptr] = obs,
                 !.obs2_buf[self.ptr] = next_obs,
                 !.acts_buf[self.ptr] = act,
                 !.rews_buf[self.ptr] = rew,
                 !.done_buf[self.ptr] = float32_of_bool(done),
                 !.ptr = (self.ptr + 1) % self.max_size]

\* ReplayBuffer.store(raw, obs, act, rew, next_obs, done)
store(self, raw, obs, act, rew, next_obs, done) ==
    [self EXCEPT !.raw_outs_buf[self.ptr] = raw,
                 !.obs1_buf[self.ptr] = obs,
                 !.obs2_buf[self.ptr] = next_obs,
                 !.acts_buf[self.ptr] = act,
                 !.rews_buf[self.ptr] = rew,
                 !.done_buf[self.ptr] = float32_of_bool(done),
                 !.ptr = (self.ptr + 1) % self.max_size,
                 !.size = Min(self.size + 1, self.max_size)]

\* indexing a numpy array of length n with i raises IndexError outside [-n, n)
index_error(i, n) == i >= n \/ i < 0 - n

\* np.random.randint(low, high, size=n) raises ValueError("low >= high")
randint_raises_OffByOne(low, high) == low >= high - 1

randint_raises(low, high) == low >= high

\* np.random.randint(low, high, size=n): n integers of [low, high), with repetition
randint(low, high, n) == [1..n -> low..(high - 1)]

\* mutant: draws among all slots, written or not
sample_idxs_AllSlots(self, n) == randint(0, self.max_size, n)

\* the draw of sample_batch: idxs = np.random.randint(0, self.size, size=batch_size)
sample_idxs(self, n) == randint(0, self.size, n)

\* mutant: the rewards are read one slot off
sample_batch_Shifted(self, ix) ==
    [raw  |-> [k \in DOMAIN ix |-> self.raw_outs_buf[ix[k]]],
     obs1 |-> [k \in DOMAIN ix |-> self.obs1_buf[ix[k]]],
     obs2 |-> [k \in DOMAIN ix |-> self.obs2_buf[ix[k]]],
     acts |-> [k \in DOMAIN ix |-> self.acts_buf[ix[k]]],
     rews |-> [k \in DOMAIN ix |-> self.rews_buf[(ix[k] + 1) % self.max_size]],
     done |-> [k \in DOMAIN ix |-> self.done_buf[ix[k]]]]

\* the dict sample_batch returns for the drawn indices ix (fancy indexing per array)
sample_batch(self, ix) ==
    [raw  |-> [k \in DOMAIN ix |-> self.raw_outs_buf[ix[k]]],
     obs1 |-> [k \in DOMAIN ix |-> self.obs1_buf[ix[k]]],
     obs2 |-> [k \in DOMAIN ix |-> self.obs2_buf[ix[k]]],
     acts |-> [k \in DOMAIN ix |-> self.acts_buf[ix[k]]],
     rews |-> [k \in DOMAIN ix |-> self.rews_buf[ix[k]]],
     done |-> [k \in DOMAIN ix |-> self.done_buf[ix[k]]]]

----------------------------------------------------------------------------
(* Weights: exact fractions [n, d] with d > 0, in lowest terms *)

RECURSIVE GCD(_, _)
GCD(a, b) == IF b = 0 THEN a ELSE GCD(b, a % b)

Abs(x) == IF x < 0 THEN 0 - x ELSE x

Frac(n, d) ==
    LET g == GCD(Abs(n), d)
    IN  [n |-> n \div g, d |-> d \div g]

FAdd(x, y) == Frac(x.n * y.d + y.n * x.d, x.d * y.d)
FSub(x, y) == Frac(x.n * y.d - y.n * x.d, x.d * y.d)
FMul(x, y) == Frac(x.n * y.n, x.d * y.d)
FOne == Frac(1, 1)

----------------------------------------------------------------------------
(* The target networks *)

\* the variables of a scope, in the order get_vars lists them
Scopes == {"pi", "q"}

\* mutant: the two weights of the interpolation swapped
target_update_Swapped(main, targ, rho) ==
    [s \in Scopes |-> FAdd(FMul(FSub(FOne, rho), targ[s]), FMul(rho, main[s]))]

\* target_update: v_targ := polyak * v_targ + (1 - polyak) * v_main, per variable
target_update(main, targ, rho) ==
    [s \in Scopes |-> FAdd(FMul(rho, targ[s]), FMul(FSub(FOne, rho), main[s]))]

\* mutant: only the policy variables are copied
target_init_PiOnly(main, targ) == [targ EXCEPT !["pi"] = main["pi"]]

\* target_init: v_targ := v_main, per variable
target_init(main, targ) == [s \in Scopes |-> main[s]]

----------------------------------------------------------------------------
(* The environment and the action selection of ddpg() *)

\* act_limit = env.action_space.high[0]
act_limit == 1

\* np.clip(a, lo, hi)
clip(x, lo, hi) == IF x < lo THEN lo ELSE IF x > hi THEN hi ELSE x

\* mutant: the noisy action is returned as it is
get_action_NoClip(pi_out, noise, noise_scale) == pi_out + noise_scale * noise

\* get_action(o, noise_scale): pi_out is sess.run(pi) at o, noise is np.random.randn
get_action(pi_out, noise, noise_scale) ==
    clip(pi_out + noise_scale * noise, 0 - act_limit, act_limit)

\* what the policy network and the random generators return in the loop
PiOutputs == {0 - 2}
Randn == {0}
ActionSpaceSamples == {1}

\* the observation an env call returns and dataset_outputs at the playhead
Obs(playhead) == playhead
RawOut(playhead) == 100 + playhead
Reward == 1
TestObs(n) == 200 + n

\* line 329: the policy acts iff t > start_steps
use_policy(step, start_steps) == step > start_steps

\* mutant: the environment's flag is stored as it is
stored_done_NoOverride(done, len, max_len) == done

\* line 351: d = False if ep_len == max_ep_len else d
stored_done(done, len, max_len) == IF len = max_len THEN FALSE ELSE done

\* mutant: the trajectory is cut one step after max_ep_len
trajectory_ends_Late(done, len, max_len) == done \/ len = max_len + 1

\* mutant: only the done flag ends the trajectory
trajectory_ends_DoneOnly(done, len, max_len) == done

\* line 364: the trajectory ends
trajectory_ends(done, len, max_len) == done \/ len = max_len

\* mutant: the update block runs after every step once update_after is reached
update_due_EveryStep(step, update_after, update_every) == step >= update_after

\* mutant: the update block does not wait for update_after
update_due_NoWarmUp(step, update_after, update_every) == step % update_every = 0

\* line 375: an update block runs after this step
update_due(step, update_after, update_every) ==
    step >= update_after /\ step % update_every = 0

\* mutant: the epoch ends with the first of its steps
epoch_ends_AtStart(step, steps_per_epoch) == step % steps_per_epoch = 0

\* line 398: the epoch ends with this step
epoch_ends(step, steps_per_epoch) == (step + 1) % steps_per_epoch = 0

\* mutant: the last epoch is saved only if save_freq divides it
save_due_NoFinal(epoch, save_freq, epochs) == epoch % save_freq = 0

\* line 408: the state is saved at the end of this epoch
save_due(epoch, save_freq, epochs) == epoch % save_freq = 0 \/ epoch = epochs

\* mutant: the observation is not carried over to the next step
carry_obs_Stale(obs, next_obs) == obs

\* line 361: o = o2
carry_obs(obs, next_obs) == next_obs

\* mutant: the policy update does not fetch target_update
policy_update_ops_NoTarget == {"train_pi_op"}

\* line 394: the ops that sess.run([pi_loss, train_pi_op, target_update]) runs
policy_update_ops == {"train_pi_op", "target_update"}

\* mutant: test_agent() resets and steps the environment of the main loop
test_agent_env_Training == "env"

\* lines 268, 290: the environment that test_agent() resets and steps
test_agent_env == "test_env"

total_steps == hp.steps_per_epoch * hp.epochs

EmptyLog == [EpRet |-> <<>>, EpLen |-> <<>>, TestEpRet |-> <<>>,
             TestEpLen |-> <<>>, LossQ |-> 0, LossPi |-> 0]

NoStep == [t |-> 0 - 1, src |-> "none", d_env |-> FALSE, ep_len |-> 0,
           d |-> FALSE, o |-> 0, o2 |-> 0, ended |-> FALSE,
           a |-> 0, pi_out |-> 0, noise |-> 0]

----------------------------------------------------------------------------
(* The buffer on its own: any sequence of store and sample_batch calls *)

NoBatch == [raw |-> <<>>, obs1 |-> <<>>, obs2 |-> <<>>,
            acts |-> <<>>, rews |-> <<>>, done |-> <<>>]

\* the transitions the callers pass: the k-th store call passes values that
\* tell the call and the field apart, and either done flag
Transition(k, d) ==
    [raw |-> 10 * k + 1, obs |-> 10 * k + 2, act |-> 10 * k + 3,
     rew |-> 10 * k + 4, next_obs |-> 10 * k + 5, done |-> d]

Transitions == {Transition(Len(stored) + 1, d) : d \in BOOLEAN}

\* ddpg() is not running
Idle ==
    /\ weight_space = {} /\ polyak = FOne
    /\ pi_space = {} /\ noise_space = {}
    /\ v_main = [s \in Scopes |-> Frac(0, 1)]
    /\ v_targ = [s \in Scopes |-> Frac(0, 1)]
    /\ pending = {} /\ n_q = 0 /\ n_pi = 0 /\ n_targ = 0 /\ n_batch = 0
    /\ hp = [steps_per_epoch |-> 0]
    /\ pc = "idle" /\ t = 0 /\ o = 0 /\ ep_ret = 0 /\ ep_len = 0
    /\ env_playhead = 0 /\ upd_i = 0 /\ last_step = NoStep
    /\ n_random = 0 /\ n_policy = 0 /\ logger = EmptyLog /\ n_saves = 0
    /\ n_tests = 0 /\ last_reset = 0
    /\ j = 0 /\ test_o = 0 /\ test_d = FALSE /\ test_ep_ret = 0 /\ test_ep_len = 0
    /\ test_a = 0 /\ test_pi = 0

InitBuf ==
    /\ \E size \in 1..MaxCapacity : replay_buffer = ReplayBuffer(size)
    /\ stored = <<>>
    /\ call = "none"
    /\ outcome = "ok"
    /\ batch_size = 0
    /\ idxs = <<>>
    /\ batch = NoBatch
    /\ Idle

\* replay_buffer.store(...): the first array assignment raises if ptr is no index
Store ==
    /\ pc = "idle"
    /\ Len(stored) < MaxStores
    /\ \E tr \in Transitions :
          LET new == store(replay_buffer, tr.raw, tr.obs, tr.act,
                           tr.rew, tr.next_obs, tr.done)
          IN  /\ stored' = Append(stored, tr)
              /\ IF index_error(replay_buffer.ptr, replay_buffer.max_size)
                 THEN outcome' = "IndexError" /\ UNCHANGED replay_buffer
                 ELSE outcome' = "ok" /\ replay_buffer' = new
    /\ call' = "store"
    /\ batch_size' = 0
    /\ idxs' = <<>>
    /\ batch' = NoBatch
    /\ UNCHANGED <<netVars, loopVars, testVars>>

\* replay_buffer.sample_batch(batch_size)
SampleBatch ==
    /\ pc = "idle"
    /\ \E n \in 1..MaxBatch :
          /\ batch_size' = n
          /\ IF randint_raises(0, replay_buffer.size)
             THEN /\ outcome' = "ValueError"
                  /\ idxs' = <<>>
                  /\ batch' = NoBatch
             ELSE \E ix \in sample_idxs(replay_buffer, n) :
                     /\ outcome' = "ok"
                     /\ idxs' = ix
                     /\ batch' = sample_batch(replay_buffer, ix)
    /\ call' = "sample_batch"
    /\ UNCHANGED <<replay_buffer, stored, netVars, loopVars, testVars>>

NextBuf == Store \/ SampleBatch

SpecBuf == InitBuf /\ [][NextBuf]_vars

----------------------------------------------------------------------------
(* ddpg(): setup, main loop, update block, end of epoch, test_agent *)

\* the hyperparameter settings of the runs that are checked
Hyperparameters ==
    [steps_per_epoch : 1..MaxStepsPerEpoch, epochs : 1..MaxEpochs,
     start_steps : 0..MaxStartSteps, max_ep_len : 1..MaxEpLen,
     update_after : {1}, update_every : {2}, num_test_episodes : {1},
     save_freq : {1}, replay_size : {2}, batch_size : {1}, act_noise : {1}]

HyperparametersNet ==
    [steps_per_epoch : {2}, epochs : {1},
     start_steps : {0}, max_ep_len : {2},
     update_after : {0}, update_every : 1..MaxUpdateEvery, num_test_episodes : {1},
     save_freq : {1}, replay_size : {2}, batch_size : {1}, act_noise : {1}]

\* lines 137-217: the state after sess.run(tf.global_variables_initializer()):
\* every variable, main or target, has its own initial value
InitRun(settings, weights, factors, outputs, noises) ==
    /\ hp \in settings
    /\ weight_space = weights
    /\ pi_space = outputs
    /\ noise_space = noises
    /\ polyak \in factors
    /\ v_main \in [Scopes -> weight_space]
    /\ v_targ \in [Scopes -> weight_space]
    /\ pending = {} /\ n_q = 0 /\ n_pi = 0 /\ n_targ = 0 /\ n_batch = 0
    /\ replay_buffer = ReplayBuffer(hp.replay_size)
    /\ stored = <<>> /\ call = "none" /\ outcome = "ok"
    /\ batch_size = hp.batch_size /\ idxs = <<>> /\ batch = NoBatch
    /\ pc = "setup" /\ t = 0 /\ o = 0 /\ ep_ret = 0 /\ ep_len = 0
    /\ env_playhead = 0 /\ upd_i = 0 /\ last_step = NoStep
    /\ n_random = 0 /\ n_policy = 0 /\ logger = EmptyLog /\ n_saves = 0
    /\ n_tests = 0 /\ last_reset = 0
    /\ j = 0 /\ test_o = 0 /\ test_d = FALSE /\ test_ep_ret = 0 /\ test_ep_len = 0
    /\ test_a = 0 /\ test_pi = 0

\* the same, with one policy output and no noise
InitWith(settings, weights, factors) ==
    InitRun(settings, weights, factors, PiOutputs, Randn)

Init == InitWith(Hyperparameters, {Frac(0, 1)}, {Frac(1, 2)})

InitNet ==
    InitWith(HyperparametersNet, {Frac(w, 1) : w \in 0..MaxWeight},
             {Frac(k, PolyakDen) : k \in 0..PolyakDen})

\* lines 218-317: sess.run(target_init), then o = env.reset()
TargetInit ==
    /\ pc = "setup"
    /\ v_targ' = target_init(v_main, v_targ)
    /\ env_playhead' = env_playhead + 1
    /\ o' = Obs(env_playhead + 1)
    /\ last_reset' = Obs(env_playhead + 1)
    /\ ep_ret' = 0 /\ ep_len' = 0
    /\ pc' = IF total_steps > 0 THEN "step" ELSE "done"
    /\ UNCHANGED <<bufVars, weight_space, pi_space, noise_space, polyak, v_main,
                   pending, n_q, n_pi, n_targ, n_batch, hp, t, upd_i, last_step,
                   n_random, n_policy, logger, n_saves, n_tests, testVars>>

\* mutant: the main loop runs one iteration more
NextIteration_OneMore(step) == IF step < total_steps THEN "step" ELSE "done"

\* the end of an iteration of `for t in range(total_steps)` that has no
\* epoch wrap-up left to do
NextIteration(step) == IF step + 1 < total_steps THEN "step" ELSE "done"

\* lines 320-375: choose the action, step env, store the transition, handle
\* the end of the trajectory, and decide on an update block
LoopStep ==
    /\ pc = "step"
    /\ \E a_rand \in ActionSpaceSamples, pi_out \in pi_space, noise \in noise_space,
          d_env \in BOOLEAN :
          LET policy  == use_policy(t, hp.start_steps)
              a       == IF policy THEN get_action(pi_out, noise, hp.act_noise)
                         ELSE a_rand
              playhead == env_playhead + 1
              o2      == Obs(playhead)
              r       == Reward
              len     == ep_len + 1
              d       == stored_done(d_env, len, hp.max_ep_len)
              raw     == RawOut(playhead)
              ends    == trajectory_ends(d, len, hp.max_ep_len)
              update  == update_due(t, hp.update_after, hp.update_every)
              wrapup  == epoch_ends(t, hp.steps_per_epoch)
          IN  /\ n_random' = IF policy THEN n_random ELSE n_random + 1
              /\ n_policy' = IF policy THEN n_policy + 1 ELSE n_policy
              /\ stored' = Append(stored, [raw |-> raw, obs |-> o, act |-> a,
                                           rew |-> r, next_obs |-> o2, done |-> d])
              /\ replay_buffer' = store(replay_buffer, raw, o, a, r, o2, d)
              /\ call' = "store" /\ outcome' = "ok"
              /\ last_step' = [t |-> t, src |-> IF policy THEN "policy" ELSE "random",
                               d_env |-> d_env, ep_len |-> len, d |-> d,
                               o |-> o, o2 |-> o2, ended |-> ends, a |-> a,
                               pi_out |-> IF policy THEN pi_out ELSE 0,
                               noise |-> IF policy THEN noise ELSE 0]
              /\ IF ends
                 THEN /\ logger' = [logger EXCEPT
                                      !.EpRet = Append(@, ep_ret + r),
                                      !.EpLen = Append(@, len)]
                      /\ env_playhead' = playhead + 1
                      /\ o' = Obs(playhead + 1)
                      /\ last_reset' = Obs(playhead + 1)
                      /\ ep_ret' = 0 /\ ep_len' = 0
                 ELSE /\ logger' = logger
                      /\ env_playhead' = playhead
                      /\ o' = carry_obs(o, o2)
                      /\ last_reset' = last_reset
                      /\ ep_ret' = ep_ret + r /\ ep_len' = len
              /\ upd_i' = 0
              /\ pc' = IF update THEN "update"
                       ELSE IF wrapup THEN "epoch" ELSE NextIteration(t)
              /\ t' = IF update \/ wrapup THEN t ELSE t + 1
    /\ UNCHANGED <<batch_size, idxs, batch, netVars, hp, n_saves, n_tests, testVars>>

\* lines 380-391: one iteration of the update block begins: a batch is drawn and
\* sess.run([q_loss, q, train_q_op]) is called
UpdateSample ==
    /\ pc = "update" /\ pending = {}
    /\ call' = "sample_batch"
    /\ IF randint_raises(0, replay_buffer.size)
       THEN /\ outcome' = "ValueError"
            /\ idxs' = <<>> /\ batch' = NoBatch
            /\ pc' = "crashed"
            /\ pending' = {}
            /\ n_batch' = n_batch
       ELSE /\ \E ix \in sample_idxs(replay_buffer, batch_size) :
                  /\ idxs' = ix
                  /\ batch' = sample_batch(replay_buffer, ix)
            /\ outcome' = "ok"
            /\ pc' = pc
            /\ pending' = {"train_q_op"}
            /\ n_batch' = n_batch + 1
    /\ UNCHANGED <<replay_buffer, stored, batch_size, weight_space, pi_space,
                   noise_space, polyak, v_main, v_targ, n_q, n_pi, n_targ, hp, t, o,
                   ep_ret, ep_len, env_playhead, upd_i, last_step, n_random,
                   n_policy, logger, n_saves, n_tests, last_reset, testVars>>

\* lines 390-394: train_q_op runs (an Adam step on main/q); then
\* sess.run([pi_loss, train_pi_op, target_update]) is called
TrainQ ==
    /\ pc = "update" /\ pending = {"train_q_op"}
    /\ \E w \in weight_space : v_main' = [v_main EXCEPT !["q"] = w]
    /\ n_q' = n_q + 1
    /\ logger' = [logger EXCEPT !.LossQ = @ + 1]
    /\ pending' = policy_update_ops
    /\ UNCHANGED <<bufVars, weight_space, pi_space, noise_space, polyak, v_targ,
                   n_pi, n_targ, n_batch, hp, pc, t, o, ep_ret, ep_len, env_playhead,
                   upd_i, last_step, n_random, n_policy, n_saves, n_tests,
                   last_reset, testVars>>

\* lines 394-398: the sess.run call returns once both of its ops have run: the
\* iteration of the update block ends, and after the last one the loop goes on
AfterPolicyUpdate(left) ==
    IF left # {}
    THEN /\ UNCHANGED <<pc, t, upd_i>>
         /\ logger' = logger
    ELSE /\ logger' = [logger EXCEPT !.LossPi = @ + 1]
         /\ IF upd_i + 1 < hp.update_every
            THEN /\ upd_i' = upd_i + 1
                 /\ UNCHANGED <<pc, t>>
            ELSE /\ upd_i' = 0
                 /\ pc' = IF epoch_ends(t, hp.steps_per_epoch) THEN "epoch"
                          ELSE NextIteration(t)
                 /\ t' = IF epoch_ends(t, hp.steps_per_epoch) THEN t ELSE t + 1

\* line 394: train_pi_op runs (an Adam step on main/pi); nothing orders it
\* against target_update, fetched by the same sess.run call
TrainPi ==
    /\ pc = "update" /\ "train_pi_op" \in pending
    /\ \E w \in weight_space : v_main' = [v_main EXCEPT !["pi"] = w]
    /\ n_pi' = n_pi + 1
    /\ pending' = pending \ {"train_pi_op"}
    /\ AfterPolicyUpdate(pending \ {"train_pi_op"})
    /\ UNCHANGED <<bufVars, weight_space, pi_space, noise_space, polyak, v_targ,
                   n_q, n_targ, n_batch, hp, o, ep_ret, ep_len, env_playhead,
                   last_step, n_random, n_policy, n_saves, n_tests, last_reset,
                   testVars>>

\* lines 209-210, 394: target_update runs
TargetUpdate ==
    /\ pc = "update" /\ "target_update" \in pending
    /\ v_targ' = target_update(v_main, v_targ, polyak)
    /\ n_targ' = n_targ + 1
    /\ pending' = pending \ {"target_update"}
    /\ AfterPolicyUpdate(pending \ {"target_update"})
    /\ UNCHANGED <<bufVars, weight_space, pi_space, noise_space, polyak, v_main,
                   n_q, n_pi, n_batch, hp, o, ep_ret, ep_len, env_playhead,
                   last_step, n_random, n_policy, n_saves, n_tests, last_reset,
                   testVars>>

\* lines 398-413: the epoch ends: save the state if due, then call test_agent()
EpochWrapUp ==
    /\ pc = "epoch"
    /\ LET epoch == (t + 1) \div hp.steps_per_epoch
       IN  n_saves' = IF save_due(epoch, hp.save_freq, hp.epochs)
                      THEN n_saves + 1 ELSE n_saves
    /\ n_tests' = n_tests + 1
    /\ j' = 0
    /\ pc' = "test"
    /\ UNCHANGED <<bufVars, netVars, hp, t, o, ep_ret, ep_len, env_playhead,
                   upd_i, last_step, n_random, n_policy, logger, last_reset,
                   test_o, test_d, test_ep_ret, test_ep_len, test_a, test_pi>>

\* lines 254-268: a test episode begins
TestReset ==
    /\ pc = "test" /\ j < hp.num_test_episodes
    /\ IF test_agent_env = "test_env"
       THEN test_o' = TestObs(0) /\ env_playhead' = env_playhead
       ELSE test_o' = Obs(env_playhead + 1) /\ env_playhead' = env_playhead + 1
    /\ test_d' = FALSE
    /\ test_ep_ret' = 0 /\ test_ep_len' = 0
    /\ pc' = "test_step"
    /\ UNCHANGED <<bufVars, netVars, hp, t, o, ep_ret, ep_len,
                   upd_i, last_step, n_random, n_policy, logger, n_saves, n_tests,
                   last_reset, j, test_a, test_pi>>

\* lines 274-297: one step of the test episode
TestStep ==
    /\ pc = "test_step"
    /\ ~ (test_d \/ test_ep_len = hp.max_ep_len)
    /\ \E pi_out \in pi_space, noise \in noise_space :
          /\ test_a' = get_action(pi_out, noise, 0)
          /\ test_pi' = pi_out
    /\ \E d_env \in BOOLEAN : test_d' = d_env
    /\ IF test_agent_env = "test_env"
       THEN test_o' = TestObs(test_ep_len + 1) /\ env_playhead' = env_playhead
       ELSE test_o' = Obs(env_playhead + 1) /\ env_playhead' = env_playhead + 1
    /\ test_ep_ret' = test_ep_ret + Reward
    /\ test_ep_len' = test_ep_len + 1
    /\ UNCHANGED <<bufVars, netVars, hp, pc, t, o, ep_ret, ep_len,
                   upd_i, last_step, n_random, n_policy, logger, n_saves, n_tests,
                   last_reset, j>>

\* lines 274, 303: the test episode is over
TestEpisodeEnd ==
    /\ pc = "test_step"
    /\ test_d \/ test_ep_len = hp.max_ep_len
    /\ logger' = [logger EXCEPT !.TestEpRet = Append(@, test_ep_ret),
                                !.TestEpLen = Append(@, test_ep_len)]
    /\ j' = j + 1
    /\ pc' = "test"
    /\ UNCHANGED <<bufVars, netVars, hp, t, o, ep_ret, ep_len, env_playhead,
                   upd_i, last_step, n_random, n_policy, n_saves, n_tests,
                   last_reset, test_o, test_d, test_ep_ret, test_ep_len,
                   test_a, test_pi>>

\* lines 254, 416-430: test_agent() returns; the epoch is logged and the
\* logger's values are dumped
EpochLog ==
    /\ pc = "test" /\ j >= hp.num_test_episodes
    /\ logger' = EmptyLog
    /\ j' = 0 /\ test_o' = 0 /\ test_d' = FALSE
    /\ test_ep_ret' = 0 /\ test_ep_len' = 0
    /\ test_a' = 0 /\ test_pi' = 0
    /\ pc' = NextIteration(t)
    /\ t' = t + 1
    /\ UNCHANGED <<bufVars, netVars, hp, o, ep_ret, ep_len, env_playhead,
                   upd_i, last_step, n_random, n_policy, n_saves, n_tests,
                   last_reset>>

Next ==
    \/ TargetInit
    \/ LoopStep
    \/ UpdateSample
    \/ TrainQ
    \/ TrainPi
    \/ TargetUpdate
    \/ EpochWrapUp
    \/ TestReset
    \/ TestStep
    \/ TestEpisodeEnd
    \/ EpochLog

\* runs of ddpg() over the settings Hyperparameters, with constant weights
Spec == Init /\ [][Next]_vars

\* settings that vary the number of steps and the length of the episodes
HyperparametersLive ==
    [steps_per_epoch : {2}, epochs : 1..MaxEpochs,
     start_steps : {0}, max_ep_len : 1..MaxEpLen,
     update_after : {1}, update_every : {2}, num_test_episodes : {1},
     save_freq : {1}, replay_size : {2}, batch_size : {1}, act_noise : {1}]

InitLive == InitWith(HyperparametersLive, {Frac(0, 1)}, {Frac(1, 2)})

\* runs of ddpg() over the settings HyperparametersLive, where ddpg() goes on as
\* long as it has a statement to execute: every call it makes returns
SpecLive == InitLive /\ [][Next]_vars /\ WF_vars(Next)

\* runs of ddpg() over the settings HyperparametersNet, weights and factors varying
SpecNet == InitNet /\ [][Next]_vars

\* policy outputs inside, at and beyond the action limits; noise of either sign
PiRange == (0 - act_limit - 1)..(act_limit + 1)
NoiseRange == {0 - 1, 0, 1}

\* settings that vary the epochs and the test episodes; every step of the main
\* loop takes a random action
HyperparametersEval ==
    [steps_per_epoch : 1..MaxStepsPerEpoch, epochs : 1..MaxEpochs,
     start_steps : {MaxStepsPerEpoch * MaxEpochs}, max_ep_len : {2},
     update_after : {1}, update_every : {2},
     num_test_episodes : 0..MaxTestEpisodes, save_freq : {1},
     replay_size : {2}, batch_size : {1}, act_noise : {1}]

InitEval ==
    InitRun(HyperparametersEval, {Frac(0, 1)}, {Frac(1, 2)}, PiRange, NoiseRange)

\* runs of ddpg() over the settings HyperparametersEval, the policy's output and
\* the noise varying
SpecEval == InitEval /\ [][Next]_vars

\* settings that vary the scale of the noise; the policy acts from step 1 on
HyperparametersAct ==
    [steps_per_epoch : {3}, epochs : {1},
     start_steps : {0}, max_ep_len : {2},
     update_after : {0}, update_every : {2},
     num_test_episodes : {1}, save_freq : {1},
     replay_size : {2}, batch_size : {1}, act_noise : 0..MaxActNoise]

InitAct ==
    InitRun(HyperparametersAct, {Frac(0, 1)}, {Frac(1, 2)}, PiRange, NoiseRange)

\* runs of ddpg() over the settings HyperparametersAct, the policy's output and
\* the noise varying
SpecAct == InitAct /\ [][Next]_vars

\* settings that vary the epochs and the saving
HyperparametersSave ==
    [steps_per_epoch : 1..MaxStepsPerEpoch, epochs : 1..(MaxEpochs + 1),
     start_steps : {0}, max_ep_len : {1},
     update_after : {1}, update_every : {2},
     num_test_episodes : {1}, save_freq : 1..MaxSaveFreq,
     replay_size : {2}, batch_size : {1}, act_noise : {1}]

InitSave == InitWith(HyperparametersSave, {Frac(0, 1)}, {Frac(1, 2)})

\* runs of ddpg() over the settings HyperparametersSave, with constant weights
SpecSave == InitSave /\ [][Next]_vars

\* settings that vary the schedule of the update block and the buffer's capacity
HyperparametersUpd ==
    [steps_per_epoch : {3}, epochs : 1..MaxEpochs,
     start_steps : {0}, max_ep_len : {2},
     update_after : 0..MaxUpdateAfter, update_every : 1..MaxUpdateEvery,
     num_test_episodes : {1}, save_freq : {1}, replay_size : 1..2,
     batch_size : {1}, act_noise : {1}]

InitUpd == InitWith(HyperparametersUpd, {Frac(0, 1)}, {Frac(1, 2)})

\* runs of ddpg() over the settings HyperparametersUpd, with constant weights
SpecUpd == InitUpd /\ [][Next]_vars

----------------------------------------------------------------------------
(* Claims about the ReplayBuffer, checked under SpecBuf *)

\* what a stored transition looks like in a slot or in a batch position
Row(tr) ==
    [raw |-> tr.raw, obs1 |-> tr.obs, obs2 |-> tr.next_obs,
     acts |-> tr.act, rews |-> tr.rew, done |-> IF tr.done THEN 1 ELSE 0]

SlotRow(self, i) ==
    [raw |-> self.raw_outs_buf[i], obs1 |-> self.obs1_buf[i],
     obs2 |-> self.obs2_buf[i], acts |-> self.acts_buf[i],
     rews |-> self.rews_buf[i], done |-> self.done_buf[i]]

BatchRow(b, k) ==
    [raw |-> b.raw[k], obs1 |-> b.obs1[k], obs2 |-> b.obs2[k],
     acts |-> b.acts[k], rews |-> b.rews[k], done |-> b.done[k]]

ZeroRow ==
    [raw |-> 0, obs1 |-> 0, obs2 |-> 0, acts |-> 0, rews |-> 0, done |-> 0]

StoredRows == {Row(stored[w]) : w \in 1..Len(stored)}

\* C1: for a buffer of capacity C >= 1, after any sequence of store and
\* sample_batch calls, 0 <= ptr < C and 0 <= size <= C.
C1_CursorAndSizeInRange ==
    /\ replay_buffer.max_size >= 1
    /\ 0 <= replay_buffer.ptr /\ replay_buffer.ptr < replay_buffer.max_size
    /\ 0 <= replay_buffer.size /\ replay_buffer.size <= replay_buffer.max_size

\* C1 witness: more stores than slots, then a sample_batch: the cursor has wrapped
C1_Witness ==
    /\ Len(stored) > replay_buffer.max_size
    /\ replay_buffer.max_size > 1
    /\ call = "sample_batch"
    /\ replay_buffer.size = replay_buffer.max_size

\* C2: one store call writes the transition into the slot at the old cursor
\* (and no other slot), sets the cursor to (old + 1) mod capacity and the size
\* to min(old + 1, capacity), and does not fail, full buffer or not.
C2_StoreStep ==
    [][Len(stored') = Len(stored) + 1 =>
         LET old == replay_buffer
             new == replay_buffer'
             tr  == stored'[Len(stored')]
         IN  /\ outcome' = "ok"
             /\ SlotRow(new, old.ptr) = Row(tr)
             /\ \A i \in 0..(old.max_size - 1) :
                   i # old.ptr => SlotRow(new, i) = SlotRow(old, i)
             /\ new.ptr = (old.ptr + 1) % old.max_size
             /\ new.size = Min(old.size + 1, old.max_size)
             /\ new.max_size = old.max_size]_vars

\* C2 witness: a store into a buffer that was already full
C2_Witness ==
    /\ call = "store"
    /\ outcome = "ok"
    /\ Len(stored) > replay_buffer.max_size

\* the example of the circular property: capacity 3, stores A, B, C, D
ExA == Transition(1, FALSE)
ExB == Transition(2, FALSE)
ExC == Transition(3, TRUE)
ExD == Transition(4, TRUE)

\* C3: after n > C stores into a fresh buffer of capacity C, size = C, the
\* cursor is n mod C, and slot i mod C holds the i-th stored transition for
\* each of the C most recent i (so the overwritten ones are the oldest);
\* capacity 3 and stores A,B,C,D leave [D,B,C] with the cursor at 1.
C3_Circular ==
    LET n == Len(stored)
        C == replay_buffer.max_size
    IN  /\ n > C =>
             /\ replay_buffer.size = C
             /\ replay_buffer.ptr = n % C
             /\ \A i \in (n - C)..(n - 1) :
                   SlotRow(replay_buffer, i % C) = Row(stored[i + 1])
        /\ (C = 3 /\ stored = <<ExA, ExB, ExC, ExD>>) =>
             /\ SlotRow(replay_buffer, 0) = Row(ExD)
             /\ SlotRow(replay_buffer, 1) = Row(ExB)
             /\ SlotRow(replay_buffer, 2) = Row(ExC)
             /\ replay_buffer.ptr = 1

\* C3 witness: the example itself
C3_Witness ==
    /\ replay_buffer.max_size = 3
    /\ stored = <<ExA, ExB, ExC, ExD>>
    /\ call = "store"

\* C4: with size S >= 1, every index sample_batch(n) draws is in [0, S), the
\* batch has exactly n entries, and every entry is a transition that was
\* stored, never an unwritten slot; indices may repeat.
C4_SampledIndicesWritten ==
    (call = "sample_batch" /\ replay_buffer.size >= 1) =>
        /\ outcome = "ok"
        /\ Len(idxs) = batch_size
        /\ \A k \in 1..Len(idxs) :
              /\ 0 <= idxs[k] /\ idxs[k] < replay_buffer.size
              /\ BatchRow(batch, k) \in StoredRows
              /\ BatchRow(batch, k) # ZeroRow
        /\ Len(batch.raw) = batch_size /\ Len(batch.obs1) = batch_size
        /\ Len(batch.obs2) = batch_size /\ Len(batch.acts) = batch_size
        /\ Len(batch.rews) = batch_size /\ Len(batch.done) = batch_size

\* C4 witness: a batch of two drawn twice from the same slot of a buffer
\* that still has unwritten slots
C4_Witness ==
    /\ call = "sample_batch"
    /\ replay_buffer.size >= 1
    /\ replay_buffer.size < replay_buffer.max_size
    /\ batch_size = 2
    /\ idxs[1] = idxs[2]

\* the store call (1-based in the history) that wrote slot i last
LastWriter(i) ==
    LET n == Len(stored)
        C == replay_buffer.max_size
    IN  CHOOSE w \in 1..n : (w - 1) % C = i /\ w + C > n

\* C5: in every reachable state the six fields of each written slot come from
\* one and the same store call (the last one that wrote the slot), unwritten
\* slots are all zero, and position k of a returned batch holds in all six
\* fields the transition of the slot idxs[k].
C5_FieldAlignment ==
    /\ \A i \in 0..(replay_buffer.max_size - 1) :
          IF i < replay_buffer.size
          THEN SlotRow(replay_buffer, i) = Row(stored[LastWriter(i)])
          ELSE SlotRow(replay_buffer, i) = ZeroRow
    /\ \A k \in 1..Len(idxs) :
          /\ BatchRow(batch, k) = SlotRow(replay_buffer, idxs[k])
          /\ BatchRow(batch, k) = Row(stored[LastWriter(idxs[k])])

\* C5 witness: a batch of two different transitions from a buffer that wrapped
C5_Witness ==
    /\ call = "sample_batch"
    /\ Len(stored) > replay_buffer.max_size
    /\ Len(idxs) = 2
    /\ idxs[1] # idxs[2]
    /\ BatchRow(batch, 1) # BatchRow(batch, 2)

\* C6 as stated: no call ends in an error, sample_batch before any store
\* included.
C6_NoErrorPaths == outcome = "ok"

\* C6 amended: store never ends in an error; sample_batch ends in an error
\* (ValueError from np.random.randint) exactly when the buffer is empty.
C6_ErrorOnlyOnEmptySample ==
    /\ call = "store" => outcome = "ok"
    /\ call = "sample_batch" =>
          /\ outcome \in {"ok", "ValueError"}
          /\ outcome = "ValueError" <=> replay_buffer.size = 0
          /\ replay_buffer.size = 0 <=> stored = <<>>

\* C6 witness: sample_batch before any store raised; and one after a store did not
C6_Witness ==
    /\ call = "sample_batch"
    /\ stored = <<>>
    /\ outcome = "ValueError"

----------------------------------------------------------------------------
(* Claims about the main loop, checked under Spec *)

\* C7 as stated: step t of the main loop takes a uniformly random action iff
\* t < start_steps, so exactly start_steps steps (or all, if the run is
\* shorter) are random.
C7_RandomIffBelowStartSteps ==
    /\ last_step.t >= 0 =>
          (last_step.src = "random" <=> last_step.t < hp.start_steps)
    /\ pc = "done" => n_random = Min(hp.start_steps, total_steps)

\* the slot the last store call wrote
LastSlot ==
    (replay_buffer.ptr + replay_buffer.max_size - 1) % replay_buffer.max_size

\* C8: the done flag a step stores is false when the step brings ep_len to
\* max_ep_len, whatever the environment reported, and is the environment's
\* flag when ep_len is below max_ep_len after the step.
C8_StoredDoneCapped ==
    last_step.t >= 0 =>
        LET tr == stored[Len(stored)]
        IN  /\ last_step.ep_len >= 1 /\ last_step.ep_len <= hp.max_ep_len
            /\ last_step.ep_len = hp.max_ep_len =>
                  /\ tr.done = FALSE
                  /\ replay_buffer.done_buf[LastSlot] = 0
            /\ last_step.ep_len < hp.max_ep_len =>
                  /\ tr.done = last_step.d_env
                  /\ replay_buffer.done_buf[LastSlot] =
                        (IF last_step.d_env THEN 1 ELSE 0)

\* C8 witness: the environment reports done on the step that reaches
\* max_ep_len, after an episode that it ended earlier with a stored true flag
C8_Witness ==
    /\ last_step.t >= 0
    /\ hp.max_ep_len >= 2
    /\ last_step.d_env
    /\ last_step.ep_len = hp.max_ep_len
    /\ \E w \in 1..(Len(stored) - 1) : stored[w].done

----------------------------------------------------------------------------
(* Claims about the target networks, checked under SpecNet *)

\* C9: right after setup, before the first environment step and before any
\* gradient update, every target variable equals its main variable.
C9_TargetsEqualMainAfterSetup ==
    (pc # "setup" /\ n_q = 0 /\ n_pi = 0 /\ n_targ = 0) =>
        \A s \in Scopes : v_targ[s] = v_main[s]

\* C9 witness: setup is over, nothing has been stepped or updated, and the
\* main variables differ from each other
C9_Witness ==
    /\ pc = "step" /\ t = 0 /\ stored = <<>>
    /\ n_q = 0 /\ n_pi = 0 /\ n_targ = 0
    /\ v_main["pi"] = Frac(1, 1)
    /\ v_main["q"] = Frac(0, 1)

\* new = rho * old + (1 - rho) * m, as an equation between fractions
IsMix(new, old, m, rho) ==
    /\ new.d > 0
    /\ new.n * (rho.d * old.d * m.d) =
          (rho.n * old.n * m.d + (rho.d - rho.n) * m.n * old.d) * new.d

\* C10: a run of target_update with factor p sets every target variable to
\* p * old_target + (1 - p) * main and changes no main variable; with p = 1
\* the targets stay as they are and with p = 0 they become the main values.
C10_PolyakStep ==
    [][n_targ' = n_targ + 1 =>
         /\ v_main' = v_main
         /\ \A s \in Scopes : IsMix(v_targ'[s], v_targ[s], v_main[s], polyak)
         /\ polyak = Frac(1, 1) => v_targ' = v_targ
         /\ polyak = Frac(0, 1) => v_targ' = v_main]_vars

\* C10 witness: a smoothing step with 0 < p < 1 has mixed two different values
C10_Witness ==
    /\ n_targ >= 1
    /\ polyak.n > 0 /\ polyak.n < polyak.d
    /\ v_targ["pi"].d > 1

----------------------------------------------------------------------------
(* Claims about the update block, checked under SpecUpd *)

\* the gradient steps taken so far, of any kind
GradientSteps == n_q + n_pi + n_targ

\* C11: no gradient update runs before update_after interactions are in the
\* replay buffer, and a step t of the main loop is followed by an update block
\* exactly when t >= update_after and t is a multiple of update_every
C11_UpdateWarmUp ==
    /\ GradientSteps + n_batch > 0 => Len(stored) >= hp.update_after
    /\ pending # {} => pc = "update"
    /\ pc = "update" =>
          /\ t = last_step.t
          /\ Len(stored) = t + 1
          /\ t >= hp.update_after
          /\ t % hp.update_every = 0
    /\ call = "store" =>
          (pc = "update" <=> /\ last_step.t >= hp.update_after
                             /\ last_step.t % hp.update_every = 0)

\* a second update block begins, at a step beyond update_after
C11_Witness ==
    /\ pc = "update" /\ call = "store"
    /\ hp.update_after > 0 /\ t > hp.update_after
    /\ hp.update_every > 1 /\ n_q > 0

\* the first step followed by an update block: the least multiple of
\* update_every that is at least update_after
FirstTrigger ==
    ((hp.update_after + hp.update_every - 1) \div hp.update_every) * hp.update_every

\* C12: update blocks begin update_every steps apart, each one runs update_every
\* gradient updates, so that k blocks make k * update_every updates over
\* k * update_every steps of the environment
C12_UpdateRatio ==
    /\ last_step.t < FirstTrigger => GradientSteps = 0
    /\ pc = "update" /\ pending = {} =>
          /\ t >= FirstTrigger
          /\ (t - FirstTrigger) % hp.update_every = 0
          /\ upd_i < hp.update_every
          /\ n_q = (t - FirstTrigger) + upd_i
          /\ n_pi = n_q /\ n_targ = n_q
    /\ pc # "update" /\ last_step.t >= FirstTrigger =>
          LET k == (last_step.t - FirstTrigger) \div hp.update_every + 1
          IN  /\ n_q = k * hp.update_every
              /\ n_pi = n_q /\ n_targ = n_q

\* the second update block of a run is over, where blocks are two steps apart
C12_Witness ==
    /\ pc # "update" /\ hp.update_every = 2 /\ FirstTrigger > 0
    /\ n_q = 2 * hp.update_every /\ n_pi = n_q /\ n_targ = n_q

\* C17 as stated: at every point of the run as many critic updates, actor
\* updates, target updates and batches have been made
C17_CountsAlwaysEqual ==
    /\ n_q = n_batch
    /\ n_pi = n_batch
    /\ n_targ = n_batch

\* 1 if the op has yet to run in the running iteration of the update block
Outstanding(op) == IF op \in pending THEN 1 ELSE 0

\* C17: an iteration of the update block draws one batch, then runs train_q_op
\* once, then train_pi_op and target_update once each; the four counts are equal
\* whenever no iteration is under way, and inside an iteration each op that has
\* yet to run is one behind the batches drawn
C17_UpdateComposition ==
    /\ pending \in {{}, {"train_q_op"}, {"train_pi_op", "target_update"},
                    {"train_pi_op"}, {"target_update"}}
    /\ n_q = n_batch - Outstanding("train_q_op")
    /\ n_pi = n_q - Outstanding("train_pi_op")
    /\ n_targ = n_q - Outstanding("target_update")
    /\ logger.LossQ <= n_q /\ logger.LossPi <= n_pi
    /\ pending = {} => /\ n_q = n_batch /\ n_pi = n_batch /\ n_targ = n_batch
                       /\ logger.LossQ = logger.LossPi

\* in the second iteration of an update block train_pi_op has run and
\* target_update has not
C17_Witness ==
    /\ pc = "update" /\ upd_i = 1 /\ pending = {"target_update"}
    /\ n_batch = 2 /\ n_q = 2 /\ n_pi = 2 /\ n_targ = 1

\* C19: the update block never draws a batch from an empty buffer: every step
\* stores one transition before it decides on an update block, so the buffer
\* holds min(t + 1, replay_size) transitions after step t and at least one
\* whenever an update block runs, even at t = 0
C19_NeverSampleEmpty ==
    /\ pc # "crashed"
    /\ outcome = "ok"
    /\ last_step.t >= 0 =>
          /\ Len(stored) = last_step.t + 1
          /\ replay_buffer.size = IF last_step.t + 1 < hp.replay_size
                                  THEN last_step.t + 1 ELSE hp.replay_size
    /\ pc = "update" =>
          /\ last_step.t = t
          /\ replay_buffer.size >= 1
    /\ call = "sample_batch" =>
          /\ Len(idxs) = hp.batch_size
          /\ \A k \in 1..Len(idxs) : idxs[k] >= 0 /\ idxs[k] < replay_buffer.size

\* with update_after = 0 a batch has been drawn after step 0, from a buffer of
\* one transition
C19_Witness ==
    /\ pc = "update" /\ t = 0 /\ hp.update_after = 0
    /\ call = "sample_batch" /\ outcome = "ok"
    /\ replay_buffer.size = 1 /\ n_batch = 1

----------------------------------------------------------------------------
(* Claims about the end of an epoch, checked under SpecEval *)

\* test_agent() is running
Testing == pc \in {"test", "test_step"}

\* C13: test_agent() runs at the steps t with (t + 1) % steps_per_epoch = 0 and
\* only there, once per epoch; each call runs num_test_episodes episodes on the
\* test environment, acts with the policy's clipped output without noise, and
\* stores TestEpRet and TestEpLen once per episode
C13_EvaluationPass ==
    /\ [](/\ Testing => /\ (t + 1) % hp.steps_per_epoch = 0
                        /\ n_tests = (t + 1) \div hp.steps_per_epoch
          /\ pc \in {"step", "update", "epoch", "done"} =>
                n_tests = t \div hp.steps_per_epoch
          /\ pc = "epoch" => (t + 1) % hp.steps_per_epoch = 0
          /\ pc = "done" => n_tests = hp.epochs
          /\ Testing => /\ j <= hp.num_test_episodes
                        /\ Len(logger.TestEpRet) = j
                        /\ Len(logger.TestEpLen) = j
          /\ pc = "test_step" =>
                /\ j < hp.num_test_episodes
                /\ test_o = TestObs(test_ep_len)
                /\ test_ep_len > 0 =>
                      test_a = clip(test_pi, 0 - act_limit, act_limit))
    /\ [][Testing /\ ~ Testing' =>
             /\ j = hp.num_test_episodes
             /\ Len(logger.TestEpRet) = hp.num_test_episodes
             /\ Len(logger.TestEpLen) = hp.num_test_episodes]_vars

\* the second test episode of the second call of test_agent() has taken a step
\* with an output of the policy inside the action limits
C13_Witness ==
    /\ pc = "test_step" /\ n_tests = 2 /\ j = 1 /\ test_ep_len > 0
    /\ test_pi = 0 /\ test_a = 0
    /\ \E noise \in noise_space : noise # 0

----------------------------------------------------------------------------
(* Claims about saving, checked under SpecSave *)

\* how many of the epochs 1..e satisfy e % save_freq = 0 or e = epochs
SavesThrough(e) ==
    Cardinality({x \in 1..e : x % hp.save_freq = 0 \/ x = hp.epochs})

\* C14: the state is saved at the end of epoch e iff e % save_freq = 0 or
\* e = epochs, so the last epoch is always saved; it is saved only at the end of
\* an epoch, and before test_agent() is called there
C14_Checkpointing ==
    /\ [](/\ Testing => n_saves = SavesThrough((t + 1) \div hp.steps_per_epoch)
          /\ pc \in {"step", "update", "epoch", "done"} =>
                n_saves = SavesThrough(t \div hp.steps_per_epoch)
          /\ pc = "done" => /\ n_saves = SavesThrough(hp.epochs)
                            /\ n_saves >= 1)
    /\ [][n_saves' # n_saves =>
             /\ n_saves' = n_saves + 1
             /\ pc = "epoch" /\ (t + 1) % hp.steps_per_epoch = 0
             /\ ~ Testing /\ Testing'
             /\ n_tests' = n_tests + 1
             /\ pc' = "test" /\ j' = 0
             /\ logger'.TestEpRet = <<>> /\ logger'.TestEpLen = <<>>]_vars

\* a run of three epochs with save_freq = 2 is over: epoch 1 was not saved,
\* epoch 2 was, and epoch 3 was saved as the last one
C14_Witness ==
    /\ pc = "done" /\ hp.save_freq = 2 /\ hp.epochs = 3
    /\ n_saves = 2 /\ n_tests = 3

----------------------------------------------------------------------------
(* Claims about the end of ddpg(), checked under SpecLive *)

\* C15: ddpg() comes to its end, after steps_per_epoch * epochs steps of the
\* environment, counted one by one by t; no episode of env or test_env is longer
\* than max_ep_len, and every call of test_agent() returns
C15_Termination ==
    /\ <>(pc = "done")
    /\ Testing ~> ~ Testing
    /\ [](/\ pc # "crashed"
          /\ pc = "done" => /\ t = total_steps
                            /\ Len(stored) = total_steps
                            /\ n_random + n_policy = total_steps
          /\ pc = "step" => t < total_steps /\ Len(stored) = t
          /\ ep_len <= hp.max_ep_len
          /\ test_ep_len <= hp.max_ep_len)
    /\ [][/\ stored' # stored =>
                /\ Len(stored') = Len(stored) + 1
                /\ last_step'.t = t
                /\ t = Len(stored)
          /\ t' # t => t' = t + 1 /\ Len(stored') = t']_vars

\* a run of four steps is over
C15_Witness ==
    /\ pc = "done" /\ total_steps = 4 /\ t = 4 /\ Len(stored) = 4
    /\ n_tests = 2

----------------------------------------------------------------------------
(* Claims about the episodes of the main loop, checked under Spec *)

\* the transition stored last
LastStored == stored[Len(stored)]

\* C16: a step ends the training episode iff the done flag it stores is true or
\* ep_len has reached max_ep_len; then EpRet and EpLen are stored once, env is
\* reset and ep_ret and ep_len are 0 again; so ep_len < max_ep_len when an
\* iteration begins, and every stored EpLen lies in 1..max_ep_len
C16_EpisodeBoundary ==
    /\ [](/\ ep_len >= 0 /\ ep_len <= hp.max_ep_len
          /\ pc = "step" => ep_len < hp.max_ep_len
          /\ \A k \in 1..Len(logger.EpLen) :
                logger.EpLen[k] >= 1 /\ logger.EpLen[k] <= hp.max_ep_len
          /\ Len(logger.EpRet) = Len(logger.EpLen))
    /\ [][/\ stored' # stored =>
                LET len == ep_len + 1
                IN  IF LastStored'.done \/ len = hp.max_ep_len
                    THEN /\ logger'.EpLen = Append(logger.EpLen, len)
                         /\ logger'.EpRet = Append(logger.EpRet, ep_ret + Reward)
                         /\ ep_len' = 0 /\ ep_ret' = 0
                         /\ env_playhead' = env_playhead + 2
                         /\ last_reset' = Obs(env_playhead')
                         /\ o' = last_reset'
                    ELSE /\ logger'.EpLen = logger.EpLen
                         /\ logger'.EpRet = logger.EpRet
                         /\ ep_len' = len /\ ep_ret' = ep_ret + Reward
                         /\ env_playhead' = env_playhead + 1
                         /\ last_reset' = last_reset
          /\ stored' = stored =>
                \/ logger'.EpLen = logger.EpLen /\ logger'.EpRet = logger.EpRet
                \/ logger' = EmptyLog]_vars

\* an episode has ended at max_ep_len = 2, at a step where env reported done
C16_Witness ==
    /\ pc = "step" /\ hp.max_ep_len = 2
    /\ last_step.ep_len = 2 /\ last_step.d_env /\ ~ LastStored.done
    /\ logger.EpLen = <<2>> /\ ep_len = 0 /\ ep_ret = 0 /\ o = last_reset

\* the last step ended the training episode
LastStepEndedEpisode == LastStored.done \/ last_step.ep_len = hp.max_ep_len

\* C20: a transition stored right after another one of the same episode has as
\* its observation the next observation of that one; the first transition of
\* the run and the first after the end of an episode have as observation what
\* env.reset() returned, which is not the next observation of the episode that
\* ended
C20_TransitionChaining ==
    /\ [](pc = "step" =>
             o = IF Len(stored) = 0 \/ LastStepEndedEpisode
                 THEN last_reset ELSE LastStored.next_obs)
    /\ [][stored' # stored =>
             /\ LastStored'.obs = o
             /\ IF Len(stored) = 0
                THEN LastStored'.obs = last_reset
                ELSE IF LastStepEndedEpisode
                     THEN /\ LastStored'.obs = last_reset
                          /\ LastStored'.obs # LastStored.next_obs
                     ELSE LastStored'.obs = LastStored.next_obs]_vars

\* three transitions are stored: the second continues the episode of the first,
\* the third begins a new episode
C20_Witness ==
    /\ Len(stored) = 3 /\ hp.max_ep_len = 2
    /\ ~ stored[1].done
    /\ stored[2].obs = stored[1].next_obs
    /\ stored[3].obs # stored[2].next_obs
    /\ stored[3].obs = Obs(4)

\* what the main loop works on: the replay buffer, the networks, env and the
\* locals o, ep_ret, ep_len
trainingState ==
    <<replay_buffer, stored, v_main, v_targ, n_q, n_pi, n_targ, n_batch,
      o, ep_ret, ep_len, env_playhead, last_reset, last_step>>

\* C21: test_agent() leaves the state of training as it is: from its call to its
\* return nothing is stored in the replay buffer, no network is updated, env is
\* neither reset nor stepped, and o, ep_ret, ep_len and t keep their values, so
\* the training episode goes on after it from where it was
C21_TestAgentFrame ==
    [][/\ Testing \/ Testing' => trainingState' = trainingState
       /\ Testing /\ Testing' =>
             /\ t' = t
             /\ logger'.EpRet = logger.EpRet /\ logger'.EpLen = logger.EpLen
             /\ n_saves' = n_saves /\ n_tests' = n_tests]_vars

\* test_agent() has run its episode in the middle of a training episode, which
\* goes on at the next step
C21_Witness ==
    /\ pc = "step" /\ n_tests = 1 /\ hp.num_test_episodes = 1
    /\ last_step.t = t - 1 /\ ~ last_step.ended
    /\ ep_len = 1 /\ ep_ret = Reward /\ o = LastStored.next_obs

\* the end of the epoch is being handled: from the test of line 398 to the dump
\* of the logger
WrappingUp == pc = "epoch" \/ Testing

\* C22: if max_ep_len <= steps_per_epoch, every epoch has stored EpRet and EpLen
\* of at least one training episode by the time its end is handled; and the end
\* of an episode at the last step of the epoch has been handled by then
C22_EpisodeLoggedEveryEpoch ==
    /\ WrappingUp /\ hp.max_ep_len <= hp.steps_per_epoch =>
          /\ Len(logger.EpRet) >= 1
          /\ Len(logger.EpLen) >= 1
    /\ WrappingUp /\ last_step.t = t
       /\ (LastStored.done \/ last_step.ep_len = hp.max_ep_len) =>
          /\ Len(logger.EpLen) >= 1
          /\ logger.EpLen[Len(logger.EpLen)] = last_step.ep_len
          /\ Len(logger.EpRet) = Len(logger.EpLen)
          /\ ep_len = 0 /\ ep_ret = 0 /\ o = last_reset
    /\ WrappingUp => last_step.t = t /\ Len(stored) = t + 1

\* the second epoch ends in the middle of an episode; the one episode stored in
\* it began in the first epoch
C22_Witness ==
    /\ pc = "epoch" /\ hp.steps_per_epoch = 2 /\ hp.max_ep_len = 2 /\ t = 3
    /\ logger.EpLen = <<2>> /\ ep_len = 1

----------------------------------------------------------------------------
(* Claims about get_action, checked under SpecAct *)

\* the value in -act_limit..act_limit that is nearest to x
Clipped(x) ==
    CHOOSE y \in (0 - act_limit)..act_limit :
        \A z \in (0 - act_limit)..act_limit : Abs(x - y) <= Abs(x - z)

\* C18: every action of get_action, in the main loop and in test_agent(), lies
\* in -act_limit..act_limit whatever the policy's output and the noise are; it
\* is the clipped sum of the output and the scaled noise, so with noise_scale = 0
\* it is the clipped output of the policy
C18_ActionClipping ==
    /\ last_step.src = "policy" =>
          /\ last_step.a >= 0 - act_limit /\ last_step.a <= act_limit
          /\ last_step.a = Clipped(last_step.pi_out + hp.act_noise * last_step.noise)
          /\ hp.act_noise = 0 => last_step.a = Clipped(last_step.pi_out)
          /\ LastStored.act = last_step.a
    /\ pc = "test_step" /\ test_ep_len > 0 =>
          /\ test_a >= 0 - act_limit /\ test_a <= act_limit
          /\ test_a = Clipped(test_pi)

\* the policy's output is at the limit and the noise pushes it beyond: the
\* action of the main loop is the limit
C18_Witness ==
    /\ last_step.src = "policy" /\ hp.act_noise > 0
    /\ last_step.pi_out = act_limit /\ last_step.noise > 0
    /\ last_step.a = act_limit

====
